---- MODULE Spec2Model ----
(***************************************************************************)
(* Model of homework.py: a bot that polls the homework-status API and      *)
(* reports the status of the most recent homework to a Telegram chat.      *)
(*                                                                         *)
(* The Russian string literals of the source are rendered in ASCII; each   *)
(* literal keeps its own distinct text and its place in the templates.     *)
(***************************************************************************)
EXTENDS Integers, Sequences, FiniteSets, TLC

(***************************************************************************)
(* Bounds of the model.                                                    *)
(***************************************************************************)
\* number of iterations of the `while True` loop that are explored
MaxCycles == 2
\* the server's 'current_date' cursors range over 0..MaxCursor
MaxCursor == 1
\* longest 'homeworks' list in a response
MaxLen == 2

(***************************************************************************)
(* Python values.                                                          *)
(***************************************************************************)
\* None where a string is expected (os.getenv of an unset variable)
NoneStr == "<None>"
\* None where an integer is expected (dict.get of a missing key)
NoneTs == -1

\* str() of an integer-or-None value inside an f-string / str.format
PyStr(v) == IF v = NoneTs THEN "None" ELSE ToString(v)

\* truth value of a string-or-None
Truthy(v) == v # NoneStr /\ v # ""

\* a dict with string keys: a function on the set of its keys
EmptyDict == [k \in {} |-> ""]
DictSet(d, key, v) == [k \in (DOMAIN d) \cup {key} |-> IF k = key THEN v ELSE d[k]]

(***************************************************************************)
(* Module-level constants of homework.py.                                  *)
(***************************************************************************)
RETRY_PERIOD == 600
ENDPOINT == "https://practicum.yandex.ru/api/user_api/homework_statuses/"
OK == 200

\* as HOMEWORK_VERDICTS, had the texts of 'approved' and 'rejected' been swapped
HOMEWORK_VERDICTS_Swapped ==
  [approved  |-> "Work checked: the reviewer has remarks.",
   reviewing |-> "Work taken for review by the reviewer.",
   rejected  |-> "Work checked: the reviewer liked everything. Hooray!"]

HOMEWORK_VERDICTS ==
  [approved  |-> "Work checked: the reviewer liked everything. Hooray!",
   reviewing |-> "Work taken for review by the reviewer.",
   rejected  |-> "Work checked: the reviewer has remarks."]

TokenNames == <<"PRACTICUM_TOKEN", "TELEGRAM_TOKEN", "TELEGRAM_CHAT_ID">>
TokenNameSet == {TokenNames[i] : i \in 1..3}
\* a value of an environment variable: unset, empty, or one of two texts
TokenValues == {NoneStr, "", "tok"}
EnvValues == {NoneStr, "tok", "other"}

(***************************************************************************)
(* Exceptions: a type and the text str(error) gives.                       *)
(***************************************************************************)
NoError == [type |-> "", text |-> ""]
Error(type, text) == [type |-> type, text |-> text]
\* str() of a KeyError is the repr of its argument
KeyErrorOf(arg) == Error("KeyError", "'" \o arg \o "'")

(***************************************************************************)
(* The JSON values the API can answer with.                                *)
(***************************************************************************)
\* One homework: a dict with optional keys 'homework_name' and 'status'.
\* An absent key carries the filler "" so that equal dicts are equal values.
Homework(keys, homework_name, status) ==
  [keys          |-> keys,
   homework_name |-> IF "homework_name" \in keys THEN homework_name ELSE "",
   status        |-> IF "status" \in keys THEN status ELSE ""]

HomeworkKeySets == SUBSET {"homework_name", "status"}
HomeworkNames == {"", "hw1"}
HomeworkStatuses == {"approved", "reviewing", "rejected", "unknown"}

\* the records that can stand first in a 'homeworks' list
Homeworks ==
  {Homework(ks, n, s) : ks \in HomeworkKeySets, n \in HomeworkNames, s \in HomeworkStatuses}
\* the records that can follow the first one
OlderHomeworks ==
  {Homework({"homework_name", "status"}, "hw2", "rejected")}

RECURSIVE OlderLists(_)
OlderLists(n) ==
  IF n = 0 THEN {<<>>}
  ELSE OlderLists(n - 1) \cup
       {Append(l, h) : l \in {m \in OlderLists(n - 1) : Len(m) = n - 1}, h \in OlderHomeworks}

HomeworkLists ==
  IF MaxLen = 0 THEN {<<>>}
  ELSE {<<>>} \cup {<<h>> \o l : h \in Homeworks, l \in OlderLists(MaxLen - 1)}

\* the value under 'homeworks': a list of homeworks, or something that is no list
NotAList == [islist |-> FALSE, items |-> <<>>]
ListOf(items) == [islist |-> TRUE, items |-> items]

\* A decoded body: a non-dict (a JSON list), or a dict with optional keys
\* 'homeworks', 'current_date' and 'error_message'.
Body(isdict, keys, homeworks, current_date, error_message) ==
  [isdict        |-> isdict,
   keys          |-> keys,
   homeworks     |-> IF "homeworks" \in keys THEN homeworks ELSE NotAList,
   current_date  |-> IF "current_date" \in keys THEN current_date ELSE NoneTs,
   error_message |-> IF "error_message" \in keys THEN error_message ELSE ""]

ListBody == Body(FALSE, {}, NotAList, NoneTs, "")
NoResponse == Body(FALSE, {"<unbound>"}, NotAList, NoneTs, "")

Cursors == 0..MaxCursor

\* bodies of a 200 answer
StatusBodies ==
  {ListBody} \cup
  {Body(TRUE, ks, hw, cd, "") :
     ks \in SUBSET {"homeworks", "current_date"},
     hw \in {NotAList} \cup {ListOf(l) : l \in HomeworkLists},
     cd \in Cursors}
\* bodies of an answer with another status code
ErrorBodies ==
  {ListBody} \cup
  {Body(TRUE, ks, NotAList, NoneTs, em) :
     ks \in SUBSET {"error_message"}, em \in {"", "denied"}}
ErrorStatusCodes == {500}

\* response.get('current_date') and response.get('error_message') on a dict
\* body: the value under the key, or None
GetCurrentDate(body) ==
  IF "current_date" \in body.keys THEN body.current_date ELSE NoneTs
GetErrorMessage(body) ==
  IF "error_message" \in body.keys THEN body.error_message ELSE NoneStr

\* What one network query does: requests.get raises, or json() fails to decode
\* the body, or an answer with a status code and a decoded body arrives.
NetOutcome(exc, status_code, body) ==
  [exc |-> exc, status_code |-> status_code, body |-> body]
NetOutcomes ==
  {NetOutcome("ConnectTimeout", 0, ListBody), NetOutcome("JSONDecodeError", 0, ListBody)}
  \cup {NetOutcome("", OK, b) : b \in StatusBodies}
  \cup {NetOutcome("", c, b) : c \in ErrorStatusCodes, b \in ErrorBodies}

\* What one bot.send_message does: it returns, or raises a TelegramError.
ChannelOutcomes == {"sent", "TelegramError"}

(***************************************************************************)
(* check_tokens                                                            *)
(***************************************************************************)
\* the test of one (token_name, token_value) pair in the for loop
TokenMissing(token_value, env_value) ==
  ~Truthy(token_value) \/ token_value # env_value

\* as check_tokens, had the tuple of tokens missed TELEGRAM_CHAT_ID
check_tokens_TwoTokens(tokens, environ) ==
  LET failing == {i \in 1..2 : TokenMissing(tokens[TokenNames[i]], environ[TokenNames[i]])}
      first == CHOOSE i \in failing : \A j \in failing : i <= j
  IN  IF failing = {}
      THEN [raised |-> FALSE, bool_token |-> TRUE, error |-> NoError]
      ELSE [raised |-> TRUE, bool_token |-> FALSE,
            error |-> Error("ValueError",
                            "Missing or wrong environment variable: " \o TokenNames[first])]

\* check_tokens(): raises ValueError naming the first token that fails the
\* test, otherwise returns bool_token (True)
check_tokens(tokens, environ) ==
  LET failing == {i \in 1..3 : TokenMissing(tokens[TokenNames[i]], environ[TokenNames[i]])}
      first == CHOOSE i \in failing : \A j \in failing : i <= j
  IN  IF failing = {}
      THEN [raised |-> FALSE, bool_token |-> TRUE, error |-> NoError]
      ELSE [raised |-> TRUE, bool_token |-> FALSE,
            error |-> Error("ValueError",
                            "Missing or wrong environment variable: " \o TokenNames[first])]

(***************************************************************************)
(* send_message                                                            *)
(***************************************************************************)
\* as send_message_run, had the except clause not set message_send = False
send_message_run_AlwaysTrue(message, channel) ==
  [attempts |-> 1, message_send |-> TRUE, raised |-> FALSE]

\* The run of send_message(bot, message) on one outcome of the channel:
\* `attempts` counts its bot.send_message calls, `message_send` is the value
\* returned, `raised` tells whether an exception leaves the function.
send_message_run(message, channel) ==
  [attempts |-> 1,
   message_send |-> IF channel = "TelegramError" THEN FALSE ELSE TRUE,
   raised |-> FALSE]

\* send_message(bot, message): one bot.send_message call; a TelegramError is
\* caught and turns the result into False
send_message(message, channel) ==
  send_message_run(message, channel).message_send

(***************************************************************************)
(* get_api_answer                                                          *)
(***************************************************************************)
\* error_message_params: the request data, formatted into the error texts
error_message_params(timestamp, practicum_token) ==
  "Request data: url: " \o ENDPOINT
  \o " with headers: {'Authorization': 'OAuth " \o practicum_token \o "'}"
  \o " and params: {'from_date': " \o PyStr(timestamp) \o "}"

\* as get_api_answer, had a request that raised been issued a second time
get_api_answer_Retry(timestamp, practicum_token, net) ==
  LET params == error_message_params(timestamp, practicum_token)
  IN  IF net.exc # ""
      THEN [raised |-> TRUE, queries |-> 2, response |-> NoResponse,
            error |-> Error("ConnectionError",
                            params \o "Error sending the request to the API: " \o net.exc)]
      ELSE IF net.status_code # OK
      THEN IF ~net.body.isdict
           THEN [raised |-> TRUE, queries |-> 1, response |-> NoResponse,
                 error |-> Error("AttributeError", "'list' object has no attribute 'get'")]
           ELSE LET api_response == GetErrorMessage(net.body)
                    text == params \o "Incorrect status of the API answer: "
                            \o ToString(net.status_code)
                IN  [raised |-> TRUE, queries |-> 1, response |-> NoResponse,
                     error |-> Error("ConnectionError",
                                     IF Truthy(api_response)
                                     THEN text \o ", Reason: " \o api_response
                                     ELSE text)]
      ELSE [raised |-> FALSE, queries |-> 1, response |-> net.body, error |-> NoError]

\* get_api_answer(timestamp) on one outcome of the network query; `queries`
\* counts the requests.get calls it made
get_api_answer(timestamp, practicum_token, net) ==
  LET params == error_message_params(timestamp, practicum_token)
  IN  IF net.exc # ""
      THEN [raised |-> TRUE, queries |-> 1, response |-> NoResponse,
            error |-> Error("ConnectionError",
                            params \o "Error sending the request to the API: " \o net.exc)]
      ELSE IF net.status_code # OK
      THEN IF ~net.body.isdict
           THEN [raised |-> TRUE, queries |-> 1, response |-> NoResponse,
                 error |-> Error("AttributeError", "'list' object has no attribute 'get'")]
           ELSE LET api_response == GetErrorMessage(net.body)
                    text == params \o "Incorrect status of the API answer: "
                            \o ToString(net.status_code)
                IN  [raised |-> TRUE, queries |-> 1, response |-> NoResponse,
                     error |-> Error("ConnectionError",
                                     IF Truthy(api_response)
                                     THEN text \o ", Reason: " \o api_response
                                     ELSE text)]
      ELSE [raised |-> FALSE, queries |-> 1, response |-> net.body, error |-> NoError]

(***************************************************************************)
(* check_response                                                          *)
(***************************************************************************)
WrongTypeText == "The API server answer holds a wrong data type."

check_response(response) ==
  IF ~response.isdict
  THEN [raised |-> TRUE, homeworks |-> <<>>, error |-> Error("TypeError", WrongTypeText)]
  ELSE IF "homeworks" \notin response.keys
  THEN [raised |-> TRUE, homeworks |-> <<>>,
        error |-> Error("EmptyResponnseFopmAPI",
                        "The API answer does not contain the key \"homeworks\".")]
  ELSE IF ~response.homeworks.islist
  THEN [raised |-> TRUE, homeworks |-> <<>>, error |-> Error("TypeError", WrongTypeText)]
  ELSE [raised |-> FALSE, homeworks |-> response.homeworks.items, error |-> NoError]

(***************************************************************************)
(* parse_status                                                            *)
(***************************************************************************)
StatusTemplate(homework_name, verdict) ==
  "The check status of work \"" \o homework_name \o "\" changed. " \o verdict

\* reading a local variable that was never assigned
UnboundLocal(name) ==
  Error("UnboundLocalError", "local variable '" \o name \o "' referenced before assignment")

\* as parse_status, had the two lookups been homework.get(...) with defaults
parse_status_Get(homework) ==
  LET raise(e) == [raised |-> TRUE, message |-> "", error |-> e]
      homework_name == IF "homework_name" \in homework.keys
                       THEN homework.homework_name ELSE "None"
      homework_status == IF "status" \in homework.keys
                         THEN homework.status ELSE "reviewing"
  IN  IF homework_status \notin DOMAIN HOMEWORK_VERDICTS
      THEN raise(Error("ValueError", "Invalid status of the homework"))
      ELSE [raised |-> FALSE, error |-> NoError,
            message |-> StatusTemplate(homework_name, HOMEWORK_VERDICTS[homework_status])]

parse_status(homework) ==
  LET raise(e) == [raised |-> TRUE, message |-> "", error |-> e]
  IN  IF "homework_name" \notin homework.keys
        \* KeyError at the first lookup; the handler then reads homework_name
      THEN raise(UnboundLocal("homework_name"))
      ELSE IF "status" \notin homework.keys
        \* KeyError at the second lookup; homework_name is bound
      THEN IF homework.homework_name = ""
           THEN raise(KeyErrorOf("The dict has no key \"homework_name\""))
           ELSE raise(UnboundLocal("homework_status"))
      ELSE IF homework.status \notin DOMAIN HOMEWORK_VERDICTS
      THEN raise(Error("ValueError", "Invalid status of the homework"))
      ELSE [raised |-> FALSE, error |-> NoError,
            message |-> StatusTemplate(homework.homework_name,
                                       HOMEWORK_VERDICTS[homework.status])]

(***************************************************************************)
(* main: the state                                                         *)
(***************************************************************************)
VARIABLES
  tokens,         \* PRACTICUM_TOKEN, TELEGRAM_TOKEN, TELEGRAM_CHAT_ID as loaded at import
  environ,        \* what os.getenv gives for the three names when check_tokens runs
  pc,             \* "start", "loop" (top of while), "finally", "slept", "terminated"
  timestamp,      \* main's local `timestamp`
  dict_messages,  \* main's local `dict_messages`
  exc,            \* the exception leaving main's try statement or main itself
  cycle,          \* number of the current iteration of the while loop (0 before it)
  cur,            \* what the current iteration has done so far: the timestamp it
                  \* fetched with, the dict_messages and the text delivered last
                  \* before it, its queries,
                  \* the stage it reached, the error raised, the response, the
                  \* candidate message, its send_message calls, the time it slept
  prev,           \* what the previous iteration did
  lastDelivered,  \* text of the latest message send_message returned True for
  nQueries,       \* network queries issued since the start
  nSends          \* send_message calls since the start

vars == <<tokens, environ, pc, timestamp, dict_messages, exc, cycle, cur, prev,
          lastDelivered, nQueries, nSends>>

\* an iteration that has not done anything yet
FreshCycle ==
  [tsFetch |-> NoneTs, stored |-> EmptyDict, notified |-> "", queries |-> 0, stage |-> "", error |-> NoError,
   response |-> NoResponse, candidate |-> "", sends |-> <<>>, slept |-> 0]

\* what is kept of an iteration once the next one has begun
Summary(c) == [sends |-> c.sends, slept |-> c.slept]

(***************************************************************************)
(* main: the body of the while loop                                        *)
(***************************************************************************)
NoNewText == "No new statuses"
FailureText(error) == "Program failure: " \o error.text

\* one send_message call of main: what was passed and what it returned
SendCall(kind, message, channel) ==
  [kind |-> kind, message |-> message, delivered |-> send_message(message, channel),
   channel |-> channel,
   attempts |-> send_message_run(message, channel).attempts,
   raised |-> send_message_run(message, channel).raised]

\* as TryRaised, had the cursor been taken right after the fetch
TryRaised_CursorFirst(stage, error, response, ts, messages) ==
  [raised |-> TRUE, stage |-> stage, error |-> error, response |-> response,
   candidate |-> "",
   timestamp |-> IF response = NoResponse THEN ts ELSE GetCurrentDate(response),
   dict_messages |-> messages, sends |-> <<>>]

\* The try block is left by an exception raised in get_api_answer ("fetch"),
\* check_response ("validate") or parse_status ("resolve"): no assignment of
\* lines 176-183 has run.
TryRaised(stage, error, response, ts, messages) ==
  [raised |-> TRUE, stage |-> stage, error |-> error, response |-> response,
   candidate |-> "", timestamp |-> ts, dict_messages |-> messages, sends |-> <<>>]

\* as TryNotify, had line 183 read a key the response never has
TryNotify_WrongKey(message, response, messages, channel) ==
  LET stored == DictSet(messages, "message", message)
      call == SendCall("status", stored["message"], channel)
      attempted == message \notin DOMAIN stored
  IN  [raised |-> FALSE, stage |-> "done", error |-> NoError, response |-> response,
       candidate |-> message,
       timestamp |-> NoneTs,
       dict_messages |-> IF attempted /\ call.delivered
                         THEN DictSet(stored, "message", message)
                         ELSE stored,
       sends |-> IF attempted THEN <<call>> ELSE <<>>]

\* Lines 176-183: store the candidate, send it unless it is a key of
\* dict_messages, take the cursor of the response.
TryNotify(message, response, messages, channel) ==
  LET stored == DictSet(messages, "message", message)
      call == SendCall("status", stored["message"], channel)
      attempted == message \notin DOMAIN stored
  IN  [raised |-> FALSE, stage |-> "done", error |-> NoError, response |-> response,
       candidate |-> message,
       timestamp |-> GetCurrentDate(response),
       dict_messages |-> IF attempted /\ call.delivered
                         THEN DictSet(stored, "message", message)
                         ELSE stored,
       sends |-> IF attempted THEN <<call>> ELSE <<>>]

\* as TryBlock, had line 173 taken the last record, homeworks[-1]
TryBlock_LastRecord(ts, messages, practicum_token, net, channel) ==
  LET answer == get_api_answer(ts, practicum_token, net)
      checked == check_response(answer.response)
      homeworks == checked.homeworks
      parsed == parse_status(homeworks[Len(homeworks)])
  IN  IF answer.raised
      THEN TryRaised("fetch", answer.error, NoResponse, ts, messages)
      ELSE IF checked.raised
      THEN TryRaised("validate", checked.error, answer.response, ts, messages)
      ELSE IF homeworks # <<>>
      THEN IF parsed.raised
           THEN TryRaised("resolve", parsed.error, answer.response, ts, messages)
           ELSE TryNotify(parsed.message, answer.response, messages, channel)
      ELSE TryNotify(NoNewText, answer.response, messages, channel)

\* Lines 167-183: the try block
TryBlock(ts, messages, practicum_token, net, channel) ==
  LET answer == get_api_answer(ts, practicum_token, net)
      checked == check_response(answer.response)
      homeworks == checked.homeworks
      parsed == parse_status(homeworks[1])
  IN  IF answer.raised
      THEN TryRaised("fetch", answer.error, NoResponse, ts, messages)
      ELSE IF checked.raised
      THEN TryRaised("validate", checked.error, answer.response, ts, messages)
      ELSE IF homeworks # <<>>
      THEN IF parsed.raised
           THEN TryRaised("resolve", parsed.error, answer.response, ts, messages)
           ELSE TryNotify(parsed.message, answer.response, messages, channel)
      ELSE TryNotify(NoNewText, answer.response, messages, channel)

\* as ExceptBlock, had the notice also been sent after a failed status send
ExceptBlock_NoticeOnFailedSend(t, channel) ==
  IF ~t.raised
  THEN [exc |-> NoError,
        sends |-> IF \E i \in 1..Len(t.sends) : ~t.sends[i].delivered
                  THEN Append(t.sends,
                              SendCall("failure", FailureText(Error("TelegramError", "")),
                                       channel))
                  ELSE t.sends]
  ELSE IF t.error.type = "EmptyResponnseFopmAPI"
  THEN [exc |-> Error("EmptyResponnseFopmAPI", "The API answer does not contain keys."),
        sends |-> t.sends]
  ELSE [exc |-> NoError,
        sends |-> Append(t.sends, SendCall("failure", FailureText(t.error), channel))]

\* as ExceptBlock, without the isinstance test of lines 187-191
ExceptBlock_NoReraise(t, channel) ==
  IF ~t.raised
  THEN [exc |-> NoError, sends |-> t.sends]
  ELSE [exc |-> NoError,
        sends |-> Append(t.sends, SendCall("failure", FailureText(t.error), channel))]

\* Lines 185-195: the except clause, on the outcome t of the try block.  `exc`
\* is the exception that leaves the try statement.
ExceptBlock(t, channel) ==
  IF ~t.raised
  THEN [exc |-> NoError, sends |-> t.sends]
  ELSE IF t.error.type = "EmptyResponnseFopmAPI"
  THEN [exc |-> Error("EmptyResponnseFopmAPI", "The API answer does not contain keys."),
        sends |-> t.sends]
  ELSE [exc |-> NoError,
        sends |-> Append(t.sends, SendCall("failure", FailureText(t.error), channel))]

\* as AfterTry, had the sleep stood after the try statement, not in a finally
AfterTry_NoFinally(leaving) == IF leaving = NoError THEN "finally" ELSE "slept"

\* Lines 197-198: the finally clause runs next, whether or not an exception
\* is leaving the try statement.
AfterTry(leaving) == "finally"

\* the text of the latest delivered message of a sequence of calls
RECURSIVE LatestDelivered(_, _)
LatestDelivered(calls, before) ==
  IF calls = <<>> THEN before
  ELSE IF calls[Len(calls)].delivered THEN calls[Len(calls)].message
  ELSE LatestDelivered(SubSeq(calls, 1, Len(calls) - 1), before)

(***************************************************************************)
(* main: the actions                                                       *)
(***************************************************************************)
Init ==
  /\ tokens \in [TokenNameSet -> TokenValues]
  /\ environ \in [TokenNameSet -> EnvValues]
  /\ pc = "start"
  /\ timestamp = 0
  /\ dict_messages = EmptyDict
  /\ exc = NoError
  /\ cycle = 0
  /\ cur = FreshCycle
  /\ prev = Summary(FreshCycle)
  /\ lastDelivered = ""
  /\ nQueries = 0
  /\ nSends = 0

\* Lines 156-163: main up to the loop
StartMain ==
  /\ pc = "start"
  /\ LET checked == check_tokens(tokens, environ)
     IN  IF checked.raised
         THEN pc' = "terminated" /\ exc' = checked.error /\ cycle' = cycle
         ELSE IF ~checked.bool_token
         THEN /\ pc' = "terminated"
              /\ exc' = KeyErrorOf("Environment variable is missing, program terminates")
              /\ cycle' = cycle
         ELSE pc' = "loop" /\ exc' = exc /\ cycle' = 1
  /\ UNCHANGED <<tokens, environ, timestamp, dict_messages, cur, prev,
                 lastDelivered, nQueries, nSends>>

\* Lines 166-195: the try and except clauses of one iteration
Cycle ==
  /\ pc = "loop"
  /\ \E net \in NetOutcomes, channel \in ChannelOutcomes :
       LET t == TryBlock(timestamp, dict_messages, tokens["PRACTICUM_TOKEN"], net, channel)
           e == ExceptBlock(t, channel)
           answer == get_api_answer(timestamp, tokens["PRACTICUM_TOKEN"], net)
       IN  /\ timestamp' = t.timestamp
           /\ dict_messages' = t.dict_messages
           /\ exc' = e.exc
           /\ pc' = AfterTry(e.exc)
           /\ cur' = [tsFetch |-> timestamp, stored |-> dict_messages,
                      notified |-> lastDelivered,
                      queries |-> answer.queries, stage |-> t.stage, error |-> t.error,
                      response |-> t.response, candidate |-> t.candidate, sends |-> e.sends, slept |-> 0]
           /\ lastDelivered' = LatestDelivered(e.sends, lastDelivered)
           /\ nQueries' = nQueries + answer.queries
           /\ nSends' = nSends + Len(e.sends)
  /\ UNCHANGED <<tokens, environ, cycle, prev>>

\* Lines 197-198: time.sleep(RETRY_PERIOD) in the finally clause
Sleep ==
  /\ pc = "finally"
  /\ pc' = "slept"
  /\ cur' = [cur EXCEPT !.slept = @ + RETRY_PERIOD]
  /\ UNCHANGED <<tokens, environ, timestamp, dict_messages, exc, cycle, prev,
                 lastDelivered, nQueries, nSends>>

\* Line 165: no exception is leaving the try statement, the loop goes round
Continue ==
  /\ pc = "slept"
  /\ exc = NoError
  /\ cycle < MaxCycles
  /\ pc' = "loop"
  /\ cycle' = cycle + 1
  /\ prev' = Summary(cur)
  /\ cur' = FreshCycle
  /\ UNCHANGED <<tokens, environ, timestamp, dict_messages, exc,
                 lastDelivered, nQueries, nSends>>

\* The exception raised in the except clause leaves the loop and main
Propagate ==
  /\ pc = "slept"
  /\ exc # NoError
  /\ pc' = "terminated"
  /\ UNCHANGED <<tokens, environ, timestamp, dict_messages, exc, cycle, cur, prev,
                 lastDelivered, nQueries, nSends>>

Next == StartMain \/ Cycle \/ Sleep \/ Continue \/ Propagate

Spec == Init /\ [][Next]_vars

TypeOK ==
  /\ pc \in {"start", "loop", "finally", "slept", "terminated"}
  /\ timestamp \in Cursors \cup {NoneTs}
  /\ DOMAIN dict_messages \subseteq {"message"}
  /\ cycle \in 0..MaxCycles

(***************************************************************************)
(* Properties                                                              *)
(***************************************************************************)
\* the iteration has run its try and except clauses
CycleRan == cycle > 0 /\ pc \in {"finally", "slept", "terminated"}
\* the send_message calls of the current iteration for the status message
StatusCalls == {i \in 1..Len(cur.sends) : cur.sends[i].kind = "status"}
\* ... and for the failure notice
FailureCalls == {i \in 1..Len(cur.sends) : cur.sends[i].kind = "failure"}

\* C1: a status message is passed to send_message only in an iteration whose
\* candidate message differs from the message delivered last, so identical
\* candidates of consecutive iterations are sent at most once.
C1_StatusDedup ==
  (CycleRan /\ cur.stage = "done") =>
    \A i \in StatusCalls : cur.candidate # cur.notified

\* C2: when send_message returns False for the status message, the timestamp
\* the next iteration fetches with is the one this iteration fetched with.
C2_NoAdvanceOnDeliveryFailure ==
  (CycleRan /\ \E i \in StatusCalls : ~cur.sends[i].delivered) =>
    timestamp = cur.tsFetch

\* C3: an iteration that ends in an error of get_api_answer, check_response or
\* parse_status, or in a delivery failure, sends the failure notice (for an
\* error), lets no exception leave the loop and never terminates main.
C3_RecoverableErrorsKeepLooping ==
  /\ (CycleRan /\ cur.error # NoError) =>
       (FailureCalls # {} /\ exc = NoError /\ pc # "terminated")
  /\ (CycleRan /\ \E i \in 1..Len(cur.sends) : ~cur.sends[i].delivered) =>
       (exc = NoError /\ pc # "terminated")

\* C4: a failure notice is not passed to send_message again in the iteration
\* that follows one which passed the same failure-notice text.
C4_FailureNoticeDedup ==
  (CycleRan /\ cycle > 1) =>
    \A i \in FailureCalls : \A j \in 1..Len(prev.sends) :
      ~(prev.sends[j].kind = "failure" /\ prev.sends[j].message = cur.sends[i].message)

\* C5: in an iteration where get_api_answer, check_response or parse_status
\* raises, the timestamp after the iteration is the timestamp before it.
C5_WatermarkUnchangedOnRaise ==
  (CycleRan /\ cur.stage \in {"fetch", "validate", "resolve"}) =>
    timestamp = cur.tsFetch
\* reached: check_response or parse_status raised on a response whose cursor
\* differs from the timestamp of the fetch
C5_Witness ==
  /\ CycleRan /\ cur.stage \in {"validate", "resolve"}
  /\ "current_date" \in cur.response.keys
  /\ cur.response.current_date # cur.tsFetch
  /\ timestamp = cur.tsFetch

\* C6: dict_messages['message'] is unset or is the text of the latest message
\* send_message returned True for; a send that returns False leaves it as it was.
C6_LastNotifiedIsDelivered ==
  dict_messages = EmptyDict \/ dict_messages["message"] = lastDelivered

\* C7: every iteration sleeps RETRY_PERIOD exactly once, after its try and
\* except clauses whatever they did, and before the next iteration (or the
\* exception leaving main) goes on.
C7_SleepOncePerCycle ==
  /\ pc \in {"loop", "finally"} => cur.slept = 0
  /\ pc = "slept" => (cur.slept = RETRY_PERIOD /\ cur.stage # "")
  /\ (pc = "terminated" /\ cycle > 0) => cur.slept = RETRY_PERIOD
  /\ (pc = "loop" /\ cycle > 1) => prev.slept = RETRY_PERIOD
\* reached: the sleep was taken although an exception is leaving the loop,
\* and a following iteration began after the sleep of an iteration that failed
C7_Witness ==
  \/ pc = "terminated" /\ cycle > 0 /\ cur.slept = RETRY_PERIOD /\ exc # NoError
  \/ pc = "slept" /\ cycle > 1 /\ cur.error # NoError /\ prev.slept = RETRY_PERIOD

\* C8: the timestamp never decreases from one iteration to the next, whatever
\* cursors the server supplies.
C8_WatermarkMonotone ==
  (CycleRan /\ timestamp # NoneTs /\ cur.tsFetch # NoneTs) => timestamp >= cur.tsFetch

\* C9: check_response returns only for a dict that has both 'homeworks' and
\* 'current_date' and whose 'homeworks' is a list, and then returns that list.
C9_ValidatorStrict ==
  (CycleRan /\ cur.response # NoResponse /\ ~check_response(cur.response).raised) =>
    /\ cur.response.isdict
    /\ {"homeworks", "current_date"} \subseteq cur.response.keys
    /\ cur.response.homeworks.islist
    /\ check_response(cur.response).homeworks = cur.response.homeworks.items

\* C10: with one of the three tokens unset or empty, main terminates with an
\* error before the loop: no network query and no send_message call occurs.
C10_ConfigFatal ==
  (\E n \in TokenNameSet : ~Truthy(tokens[n])) =>
    /\ pc \in {"start", "terminated"}
    /\ pc = "terminated" => exc.type = "ValueError"
    /\ cycle = 0 /\ nQueries = 0 /\ nSends = 0
\* reached: main has terminated on an empty TELEGRAM_CHAT_ID, the last token
\* checked, with the other two set and equal to the environment
C10_Witness ==
  /\ pc = "terminated"
  /\ tokens["TELEGRAM_CHAT_ID"] = ""
  /\ \A n \in {"PRACTICUM_TOKEN", "TELEGRAM_TOKEN"} : tokens[n] = "tok" /\ environ[n] = "tok"
  /\ nQueries = 0 /\ nSends = 0

\* the iteration's response passed check_response
Validated == CycleRan /\ cur.stage \in {"resolve", "done"}
\* the list check_response returned
ValidList == cur.response.homeworks.items
\* the verdict texts the three statuses are to give
ExpectedVerdict(status) ==
  CASE status = "approved" -> "Work checked: the reviewer liked everything. Hooray!"
    [] status = "reviewing" -> "Work taken for review by the reviewer."
    [] status = "rejected" -> "Work checked: the reviewer has remarks."

\* C11: for a record with a name and a status, parse_status returns the
\* template with the record's name and the verdict text of the status for
\* approved, reviewing and rejected, and raises for every other status.
C11_VerdictComplete ==
  (Validated /\ ValidList # <<>>
     /\ ValidList[1].keys = {"homework_name", "status"}) =>
    LET h == ValidList[1]
        p == parse_status(h)
    IN  IF h.status \in {"approved", "reviewing", "rejected"}
        THEN /\ ~p.raised
             /\ p.message = "The check status of work \"" \o h.homework_name
                            \o "\" changed. " \o ExpectedVerdict(h.status)
             /\ cur.stage = "done" /\ cur.candidate = p.message
        ELSE /\ p.raised /\ p.error # NoError
             /\ cur.stage = "resolve" /\ cur.error = p.error
\* reached: the first record is hw1 with status approved, and it was resolved
C11_Witness ==
  /\ Validated /\ ValidList # <<>>
  /\ ValidList[1] = Homework({"homework_name", "status"}, "hw1", "approved")
  /\ cur.stage = "done"
  /\ cur.candidate = "The check status of work \"hw1\" changed. "
                     \o "Work checked: the reviewer liked everything. Hooray!"

\* C12: for a record without the name or without the status, parse_status
\* raises and returns no message; the iteration sends the failure notice,
\* leaves the timestamp as it was and the loop goes on.
C12_MissingFieldRecoverable ==
  (Validated /\ ValidList # <<>>
     /\ ValidList[1].keys # {"homework_name", "status"}) =>
    /\ parse_status(ValidList[1]).raised
    /\ parse_status(ValidList[1]).message = ""
    /\ cur.stage = "resolve" /\ cur.candidate = ""
    /\ cur.error = parse_status(ValidList[1]).error /\ cur.error # NoError
    /\ FailureCalls # {} /\ StatusCalls = {}
    /\ \A i \in FailureCalls : cur.sends[i].message = "Program failure: " \o cur.error.text
    /\ timestamp = cur.tsFetch
    /\ exc = NoError /\ pc # "terminated"
\* reached: the first record is hw1 without a status, in a response whose
\* cursor differs from the timestamp, and the iteration has slept
C12_Witness ==
  /\ Validated /\ ValidList # <<>> /\ pc = "slept"
  /\ ValidList[1] = Homework({"homework_name"}, "hw1", "")
  /\ "current_date" \in cur.response.keys /\ cur.response.current_date # cur.tsFetch
  /\ FailureCalls # {} /\ exc = NoError

\* C13: after an iteration whose fetch, validation and resolve succeeded and
\* whose status message was delivered or not sent at all, the timestamp is the
\* 'current_date' of the iteration's response.
C13_WatermarkFollowsCursor ==
  (CycleRan /\ cur.stage = "done" /\ "current_date" \in cur.response.keys
     /\ \A i \in StatusCalls : cur.sends[i].delivered) =>
    timestamp = cur.response.current_date
\* reached: a delivered status message and a cursor that differs from the
\* timestamp the iteration fetched with
C13_Witness ==
  /\ CycleRan /\ cur.stage = "done" /\ "current_date" \in cur.response.keys
  /\ StatusCalls # {} /\ \A i \in StatusCalls : cur.sends[i].delivered
  /\ cur.response.current_date # cur.tsFetch
  /\ timestamp = cur.response.current_date

\* C14: every send_message call makes exactly one delivery attempt, returns
\* True when the channel delivered and False when it raised a TelegramError,
\* and lets no exception into the loop.
C14_DeliveryFailureContained ==
  CycleRan =>
    \A i \in 1..Len(cur.sends) :
      /\ cur.sends[i].attempts = 1
      /\ cur.sends[i].delivered = (cur.sends[i].channel = "sent")
      /\ ~cur.sends[i].raised
      /\ (cur.error.type # "EmptyResponnseFopmAPI" => exc = NoError)
\* reached: the channel raised a TelegramError, send_message returned False
\* and the iteration went on to its sleep with no exception pending
C14_Witness ==
  /\ pc = "slept" /\ exc = NoError /\ Len(cur.sends) = 1
  /\ cur.sends[1].channel = "TelegramError"
  /\ ~cur.sends[1].delivered /\ cur.sends[1].attempts = 1

\* C15: with a non-empty validated list the candidate message is what
\* parse_status gives for the first record, whatever follows it in the list;
\* with an empty list it is the fixed text.
C15_CandidateIsFirstRecord ==
  Validated =>
    IF ValidList = <<>>
    THEN cur.stage = "done" /\ cur.candidate = "No new statuses"
    ELSE LET p == parse_status(ValidList[1])
         IN  /\ p.raised => (cur.stage = "resolve" /\ cur.error = p.error /\ StatusCalls = {})
             /\ ~p.raised => /\ cur.stage = "done" /\ cur.candidate = p.message
                             /\ \A i \in StatusCalls : cur.sends[i].message = p.message
\* reached: a list of two records that resolve to different messages, the
\* candidate being the message of the first
C15_Witness ==
  /\ Validated /\ Len(ValidList) = 2 /\ cur.stage = "done"
  /\ ValidList[1] = Homework({"homework_name", "status"}, "hw1", "approved")
  /\ ValidList[2] = Homework({"homework_name", "status"}, "hw2", "rejected")
  /\ cur.candidate = parse_status(ValidList[1]).message
  /\ cur.candidate # parse_status(ValidList[2]).message
  /\ StatusCalls # {}

\* C16: every iteration issues exactly one network query, also when the
\* query fails; the next query comes only in the next iteration, after the
\* sleep.
C16_OneQueryPerCycle ==
  /\ CycleRan => (cur.queries = 1 /\ nQueries = cycle)
  /\ pc = "start" => nQueries = 0
  /\ pc = "loop" => (nQueries = cycle - 1 /\ cur.queries = 0)
  /\ (pc = "loop" /\ cycle > 1) => prev.slept = RETRY_PERIOD
\* reached: the query of the second iteration failed as the first one's did,
\* two queries in all, the second after the first iteration's sleep
C16_Witness ==
  /\ CycleRan /\ cycle = 2 /\ cur.stage = "fetch" /\ cur.queries = 1 /\ nQueries = 2
  /\ prev.slept = RETRY_PERIOD
  /\ \E j \in 1..Len(prev.sends) :
       prev.sends[j].kind = "failure" /\ prev.sends[j].message = cur.sends[1].message

\* C17: the timestamp passed to get_api_answer is the initial 0 or a cursor of
\* an earlier response, never None.
C17_WatermarkNeverNone ==
  /\ CycleRan => cur.tsFetch \in Cursors
  /\ pc = "loop" => timestamp \in Cursors

\* C18: in every iteration send_message is called at most once, for the
\* status message or for the failure notice.
C18_AtMostOneSendPerCycle ==
  /\ Len(cur.sends) <= 1
  /\ StatusCalls = {} \/ FailureCalls = {}
  /\ nSends <= cycle
\* reached: the status message was sent and the channel failed, and the
\* iteration made no second call
C18_Witness ==
  /\ CycleRan /\ pc = "slept" /\ Len(cur.sends) = 1 /\ StatusCalls = {1}
  /\ ~cur.sends[1].delivered

\* C19: in the iteration where check_response raises EmptyResponnseFopmAPI,
\* send_message is not called and neither the timestamp nor dict_messages
\* changes.
C19_MissingKeySilent ==
  (CycleRan /\ cur.error.type = "EmptyResponnseFopmAPI") =>
    /\ cur.sends = <<>>
    /\ timestamp = cur.tsFetch
    /\ dict_messages = cur.stored
    /\ lastDelivered = cur.notified
\* reached: the second iteration's response has a cursor but no 'homeworks',
\* after a first iteration that stored a message
C19_Witness ==
  /\ CycleRan /\ cycle = 2 /\ cur.error.type = "EmptyResponnseFopmAPI"
  /\ "current_date" \in cur.response.keys /\ cur.response.current_date # cur.tsFetch
  /\ cur.stored # EmptyDict /\ dict_messages = cur.stored
  /\ cur.sends = <<>>

====
